---- MODULE Spec2Model ----
(***************************************************************************)
(* Model of src/Scraping/disciplines.py: the prerequisite parser           *)
(* (create_requirement, parse_requirements), the per-initials parsing of   *)
(* a catalog page (parse_disciplines), the pool of fetch-and-parse tasks   *)
(* and the requirement update pass (get_all_disciplines_data,              *)
(* update_initials_requirements, get_discipline, add_required_by).         *)
(*                                                                         *)
(* A Python str is a sequence of one-character strings.  A dict is a       *)
(* sequence of entries in insertion order.  A Requirement is a record      *)
(* [code, partial, special]; a key the code leaves out ('partial',         *)
(* 'special') is FALSE.  A Discipline is a record [code, name, reqs,       *)
(* reqBy]; the 'reqs' key left out is None and the 'reqBy' key left out    *)
(* is the empty list (the code reads both only through .get()).  The       *)
(* 'credits' and 'syllabus' fields are never read after being stored and   *)
(* are left out.                                                           *)
(***************************************************************************)
EXTENDS Integers, Sequences, FiniteSets, TLC

VARIABLES
    initial_list,      \* get_all_initials(): the initials, in page order
    task,              \* task[i]: state of the pool task of initial_list[i]
    disciplines_data,  \* disciplines_data[i]: what task i returned
    skipped,           \* skipped[i]: task i took the 'except AttributeError' branch
    data,              \* the dict initials -> (dict code -> Discipline)
    resolved,          \* positions <<s, d>> of data already updated
    pc,                \* "fetch", "resolve", "done" or "failed"
    output,            \* the files written by main, one per initials
    mode,              \* parser harness: "token", "raw" or "off"
    input,             \* parser harness: the string handed to the parser
    parsed             \* parser harness: what the parser returned

vars == <<initial_list, task, disciplines_data, skipped, data, resolved, pc, output,
          mode, input, parsed>>

pipeVars == <<initial_list, task, disciplines_data, skipped, data, resolved, pc, output>>
parseVars == <<mode, input, parsed>>

-----------------------------------------------------------------------------
(* Bounds *)

\* Longest token handed to create_requirement in the parser harness.
MaxTokLen == 6
\* Most pieces joined into one requirement text in the parser harness.
MaxPieces == 3
\* Most discipline rows on one catalog page.
MaxRows == 2

-----------------------------------------------------------------------------
(* Strings *)

\* Python's None where a Requirement is expected (create_requirement).
None == [none |-> TRUE]

\* Python's None where a list of requirement groups is expected
\* (parse_requirements, Discipline.get('reqs')).  A list the parser returns is
\* never empty: str.split returns at least one piece.
NoReqs == <<>>

\* s[1:]
Rest(s) == IF s = <<>> THEN <<>> ELSE Tail(s)

\* s[0:2]
Prefix2(s) == IF Len(s) <= 2 THEN s ELSE SubSeq(s, 1, 2)

\* s.startswith(sep) at offset i (1-based)
MatchAt(s, sep, i) ==
    /\ i + Len(sep) - 1 <= Len(s)
    /\ SubSeq(s, i, i + Len(sep) - 1) = sep

\* Index of the first occurrence of sep in s at or after i, 0 if none
\* (str.find).
RECURSIVE Find(_, _, _)
Find(s, sep, i) ==
    IF i + Len(sep) - 1 > Len(s) THEN 0
    ELSE IF MatchAt(s, sep, i) THEN i
    ELSE Find(s, sep, i + 1)

\* str.split(sep) for a non-empty sep: the pieces between the
\* non-overlapping occurrences of sep, scanned left to right.
RECURSIVE Split(_, _)
Split(s, sep) ==
    LET k == Find(s, sep, 1)
    IN  IF k = 0 THEN <<s>>
        ELSE <<SubSeq(s, 1, k - 1)>> \o Split(SubSeq(s, k + Len(sep), Len(s)), sep)

or_string == <<" ", "o", "u", " ">>
and_string == <<"+">>

-----------------------------------------------------------------------------
(* Atom classifier and grammar parser *)

CodeLen == 5

is_discipline_code(code) == Len(code) = CodeLen

Requirement(code, partial) == [code |-> code, partial |-> partial, special |-> FALSE]

create_requirement(raw) ==
    IF is_discipline_code(raw)
    THEN Requirement(raw, FALSE)
    ELSE IF is_discipline_code(Rest(raw)) /\ raw[1] = "*"
    THEN Requirement(Rest(raw), TRUE)
    ELSE None

\* [create_requirement(raw) for raw in group.split(and_string)]
GroupReqs(group) ==
    LET toks == Split(group, and_string)
    IN  [i \in 1..Len(toks) |-> create_requirement(toks[i])]

\* parse_requirements keeping the groups that are valid instead of giving
\* up on the first invalid one.
RECURSIVE ParseLoopLenient(_, _, _)
ParseLoopLenient(groups, i, requirements) ==
    IF i > Len(groups) THEN requirements
    ELSE LET group_reqs == GroupReqs(groups[i])
         IN  IF \E j \in 1..Len(group_reqs) : group_reqs[j] = None
             THEN ParseLoopLenient(groups, i + 1, requirements)
             ELSE ParseLoopLenient(groups, i + 1, Append(requirements, group_reqs))

\* The loop of parse_requirements from group i on, with the groups
\* collected so far.
RECURSIVE ParseLoop(_, _, _)
ParseLoop(groups, i, requirements) ==
    IF i > Len(groups) THEN requirements
    ELSE LET group_reqs == GroupReqs(groups[i])
         IN  IF \E j \in 1..Len(group_reqs) : group_reqs[j] = None
             THEN NoReqs
             ELSE ParseLoop(groups, i + 1, Append(requirements, group_reqs))

parse_requirements(raw) == ParseLoop(Split(raw, or_string), 1, <<>>)

-----------------------------------------------------------------------------
(* Catalog pages *)

MC == <<"M", "C">>
MA == <<"M", "A">>
MC102 == <<"M", "C", "1", "0", "2">>
MA111 == <<"M", "A", "1", "1", "1">>

\* Requirement texts found on the pages:
\*   "MA111 ou *MA111+MC102" and the malformed "AB12+MC102".
ReqTexts ==
    { MA111 \o or_string \o <<"*">> \o MA111 \o and_string \o MC102,
      <<"A", "B", "1", "2">> \o and_string \o MC102 }

\* The rows (tags of class 'row') a page may hold: a well-formed discipline,
\* or a row lacking one of the tags, on which .text raises AttributeError.
Rows ==
    [kind : {"discipline"}, code : {MC102, MA111}, name : {"Algoritmos", "Calculo"},
     requirements_string : ReqTexts]
    \cup {[kind |-> "AttributeError"]}

\* get_disciplines(initials): any page of at most MaxRows rows.
Pages == UNION {[1..n -> Rows] : n \in 0..MaxRows}

\* get_all_initials(): the lists of initials of the index page.
InitialLists == {<<MC>>, <<MC, MA>>}

-----------------------------------------------------------------------------
(* Dicts: sequences of entries in insertion order *)

\* Position of the entry of disciplines_map with this code, 0 if none.
CodeIndex(disciplines_map, code) ==
    IF \E i \in 1..Len(disciplines_map) : disciplines_map[i].code = code
    THEN CHOOSE i \in 1..Len(disciplines_map) : disciplines_map[i].code = code
    ELSE 0

\* Position of the entry of all_data with this key, 0 if none.
InitialsIndex(all_data, initials) ==
    IF \E i \in 1..Len(all_data) : all_data[i].initials = initials
    THEN CHOOSE i \in 1..Len(all_data) : all_data[i].initials = initials
    ELSE 0

Discipline(code, name) == [code |-> code, name |-> name, reqs |-> NoReqs, reqBy |-> <<>>]

\* disciplines_map[code] = new_discipline
SetDiscipline(disciplines_map, new_discipline) ==
    LET i == CodeIndex(disciplines_map, new_discipline.code)
    IN  IF i = 0 THEN Append(disciplines_map, new_discipline)
        ELSE [disciplines_map EXCEPT ![i] = new_discipline]

\* The body of the loop of parse_disciplines for one row.
ParseRow(disciplines_map, row) ==
    IF row.kind = "AttributeError" THEN disciplines_map
    ELSE LET reqs == parse_requirements(row.requirements_string)
             new_discipline == Discipline(row.code, row.name)
         IN  SetDiscipline(disciplines_map,
                           IF reqs # NoReqs
                           THEN [new_discipline EXCEPT !.reqs = reqs]
                           ELSE new_discipline)

RECURSIVE ParseRows(_, _, _)
ParseRows(disciplines, i, disciplines_map) ==
    IF i > Len(disciplines) THEN disciplines_map
    ELSE ParseRows(disciplines, i + 1, ParseRow(disciplines_map, disciplines[i]))

parse_disciplines(disciplines) == ParseRows(disciplines, 1, <<>>)

\* A merge that drops from a shard the codes an earlier shard already holds.
RECURSIVE DictZipDropRepeated(_, _, _, _)
DictZipDropRepeated(keys, values, i, d) ==
    IF i > Len(keys) THEN d
    ELSE LET Fresh(x) == \A k \in 1..Len(d) : CodeIndex(d[k].content, x.code) = 0
         IN  DictZipDropRepeated(keys, values, i + 1,
                 Append(d, [initials |-> keys[i],
                            content |-> SelectSeq(values[i], Fresh)]))

\* dict(zip(initial_list, disciplines_data)): a repeated key keeps its first
\* position and its last value.
RECURSIVE DictZip(_, _, _, _)
DictZip(keys, values, i, d) ==
    IF i > Len(keys) THEN d
    ELSE LET k == InitialsIndex(d, keys[i])
             entry == [initials |-> keys[i], content |-> values[i]]
         IN  DictZip(keys, values, i + 1,
                     IF k = 0 THEN Append(d, entry) ELSE [d EXCEPT ![k] = entry])

-----------------------------------------------------------------------------
(* Requirement update *)

\* get_discipline returns None
NoPos == <<0, 0>>

\* The position <<s, d>> in all_data of the Discipline get_discipline returns.
get_discipline(code, all_data) ==
    LET s == InitialsIndex(all_data, Prefix2(code))
    IN  IF s = 0 THEN NoPos
        ELSE LET d == CodeIndex(all_data[s].content, code)
             IN  IF d = 0 THEN NoPos ELSE <<s, d>>

\* add_required_by assigning a fresh list on every call.
add_required_by_overwrite(all_data, q, discipline_code) ==
    [all_data EXCEPT ![q[1]].content[q[2]].reqBy = <<discipline_code>>]

\* add_required_by on the Discipline at position q.
add_required_by(all_data, q, discipline_code) ==
    LET reqBy == all_data[q[1]].content[q[2]].reqBy
    IN  IF reqBy # <<>>
        THEN [all_data EXCEPT ![q[1]].content[q[2]].reqBy = Append(reqBy, discipline_code)]
        ELSE [all_data EXCEPT ![q[1]].content[q[2]].reqBy = <<discipline_code>>]

\* The atom replaced by a new Requirement(code=code, special=True).
SetSpecialRebuild(all_data, p, b, r) ==
    [all_data EXCEPT ![p[1]].content[p[2]].reqs[b][r] =
        [code |-> @.code, partial |-> FALSE, special |-> TRUE]]

\* requirement['special'] = True on atom r of block b of the Discipline at p.
SetSpecial(all_data, p, b, r) ==
    [all_data EXCEPT ![p[1]].content[p[2]].reqs[b][r].special = TRUE]

\* The two inner loops of update_initials_requirements for the Discipline at
\* position p, from atom r of block b on.
RECURSIVE UpdateBlocks(_, _, _, _)
UpdateBlocks(all_data, p, b, r) ==
    LET discipline == all_data[p[1]].content[p[2]]
        requirement_blocks == discipline.reqs
    IN  IF b > Len(requirement_blocks) THEN all_data
        ELSE IF r > Len(requirement_blocks[b]) THEN UpdateBlocks(all_data, p, b + 1, 1)
        ELSE LET requirement == requirement_blocks[b][r]
                 requirement_discipline == get_discipline(requirement.code, all_data)
             IN  UpdateBlocks(IF requirement_discipline # NoPos
                              THEN add_required_by(all_data, requirement_discipline,
                                                   discipline.code)
                              ELSE SetSpecial(all_data, p, b, r),
                              p, b, r + 1)

\* The body of the outer loop of update_initials_requirements for one code.
UpdateDiscipline(all_data, p) ==
    IF all_data[p[1]].content[p[2]].reqs # NoReqs
    THEN UpdateBlocks(all_data, p, 1, 1)
    ELSE all_data

\* The loop of get_all_disciplines_data over update_initials_requirements,
\* from the Discipline at <<s, d>> on: every shard in the order of data,
\* every code in the order of its shard.
RECURSIVE UpdateFrom(_, _, _)
UpdateFrom(all_data, s, d) ==
    IF s > Len(all_data) THEN all_data
    ELSE IF d > Len(all_data[s].content) THEN UpdateFrom(all_data, s + 1, 1)
    ELSE UpdateFrom(UpdateDiscipline(all_data, <<s, d>>), s, d + 1)

\* The positions <<s, d>> of the Disciplines of all_data.
Positions(all_data) ==
    UNION {{<<s, d>> : d \in 1..Len(all_data[s].content)} : s \in 1..Len(all_data)}

\* p comes before q in the order of the loops.
Before(p, q) == p[1] < q[1] \/ (p[1] = q[1] /\ p[2] < q[2])

-----------------------------------------------------------------------------
(* get_all_disciplines_data and main *)

Tasks == 1..Len(initial_list)

\* pool.map returning with the first result.
PoolMapReadyAny == \E i \in Tasks : task[i] = "done"

\* pool.map returning once every task has ended, whether it raised or not.
PoolMapReadyEnded == \A i \in Tasks : task[i] # "pending"

\* pool.map returns when every task has returned its result.
PoolMapReady == \A i \in Tasks : task[i] = "done"

Init ==
    /\ initial_list \in InitialLists
    /\ task = [i \in 1..Len(initial_list) |-> "pending"]
    /\ disciplines_data = [i \in 1..Len(initial_list) |-> <<>>]
    /\ skipped = [i \in 1..Len(initial_list) |-> FALSE]
    /\ data = <<>>
    /\ resolved = {}
    /\ pc = "fetch"
    /\ output = <<>>
    /\ mode = "off"
    /\ input = <<>>
    /\ parsed = [called |-> FALSE]

\* get_disciplines_data(initial_list[i]) in a pool worker: the page is
\* fetched and parsed, the map is returned to the parent.
TaskReturn(i) ==
    /\ pc = "fetch"
    /\ task[i] = "pending"
    /\ \E page \in Pages :
           /\ disciplines_data' = [disciplines_data EXCEPT ![i] = parse_disciplines(page)]
           /\ skipped' = [skipped EXCEPT
                            ![i] = \E r \in 1..Len(page) : page[r].kind = "AttributeError"]
    /\ task' = [task EXCEPT ![i] = "done"]
    /\ UNCHANGED <<initial_list, data, resolved, pc, output, parseVars>>

\* get_disciplines_data(initial_list[i]) raises: requests.get fails in
\* load_soup, or a row raises something parse_disciplines does not catch
\* (int() of the credits, the unpacking of code and name).
TaskRaise(i) ==
    /\ pc = "fetch"
    /\ task[i] = "pending"
    /\ task' = [task EXCEPT ![i] = "failed"]
    /\ UNCHANGED <<initial_list, disciplines_data, skipped, data, resolved, pc, output,
                   parseVars>>

\* pool.map returns and data = dict(zip(initial_list, disciplines_data)).
PoolMapReturn ==
    /\ pc = "fetch"
    /\ PoolMapReady
    /\ data' = DictZip(initial_list, disciplines_data, 1, <<>>)
    /\ pc' = "resolve"
    /\ UNCHANGED <<initial_list, task, disciplines_data, skipped, resolved, output,
                   parseVars>>

\* pool.map re-raises the exception of a task: get_all_disciplines_data and
\* main end with it, nothing is written.  The tasks still pending then are
\* abandoned when the 'with Pool' block terminates the pool.
PoolMapRaise ==
    /\ pc = "fetch"
    /\ \E i \in Tasks : task[i] = "failed"
    /\ pc' = "failed"
    /\ UNCHANGED <<initial_list, task, disciplines_data, skipped, data, resolved, output,
                   parseVars>>

\* One iteration of 'for code in data' of update_initials_requirements, for
\* the Discipline at position p.
Update(p) ==
    /\ pc = "resolve"
    /\ p \in Positions(data) \ resolved
    /\ data' = UpdateDiscipline(data, p)
    /\ resolved' = resolved \cup {p}
    /\ UNCHANGED <<initial_list, task, disciplines_data, skipped, pc, output, parseVars>>

\* The iteration the code runs next: the first position not yet updated.
UpdateNext ==
    \E p \in Positions(data) \ resolved :
        /\ \A q \in Positions(data) \ resolved : q = p \/ Before(p, q)
        /\ Update(p)

\* The iterations in any order.
UpdateAny == \E p \in Positions(data) \ resolved : Update(p)

\* get_all_disciplines_data returns the lists of each initials and main dumps
\* one file per initials.
Finish ==
    /\ pc = "resolve"
    /\ resolved = Positions(data)
    /\ output' = [s \in 1..Len(data) |->
                     [initials |-> data[s].initials, content |-> data[s].content]]
    /\ pc' = "done"
    /\ UNCHANGED <<initial_list, task, disciplines_data, skipped, data, resolved,
                   parseVars>>

Next ==
    \/ \E i \in Tasks : TaskReturn(i)
    \/ \E i \in Tasks : TaskRaise(i)
    \/ PoolMapReturn
    \/ PoolMapRaise
    \/ UpdateNext
    \/ Finish

Spec == Init /\ [][Next]_vars

\* The same program with the iterations of the update taken in any order.
NextAnyOrder ==
    \/ \E i \in Tasks : TaskReturn(i)
    \/ \E i \in Tasks : TaskRaise(i)
    \/ PoolMapReturn
    \/ PoolMapRaise
    \/ UpdateAny
    \/ Finish

SpecAnyOrder == Init /\ [][NextAnyOrder]_vars

-----------------------------------------------------------------------------
(* Parser harness: the parser applied to bounded inputs *)

TokenChars == {"M", "1", "*", " "}

\* Every string of at most MaxTokLen characters.
Tokens == UNION {[1..n -> TokenChars] : n \in 0..MaxTokLen}

MC202 == <<"M", "C", "2", "0", "2">>
AB12 == <<"A", "B", "1", "2">>
XY999 == <<"X", "Y", "9", "9", "9">>
F000 == <<"F", " ", "0", "0", "0">>

\* The pieces requirement texts are put together from.
Pieces == {MC102, <<"*">> \o MC202, AB12, XY999, F000, <<>>}

RECURSIVE Join(_, _, _)
Join(pieces, seps, i) ==
    IF i > Len(pieces) THEN <<>>
    ELSE (IF i = 1 THEN <<>> ELSE seps[i - 1]) \o pieces[i] \o Join(pieces, seps, i + 1)

\* The requirement texts of at most MaxPieces pieces joined by ' ou ' and '+'.
RawTexts ==
    UNION {{Join(ps, ss, 1) : ps \in [1..n -> Pieces],
                              ss \in [1..(n - 1) -> {or_string, and_string}]}
           : n \in 1..MaxPieces}

InitParse ==
    /\ initial_list = <<>>
    /\ task = <<>>
    /\ disciplines_data = <<>>
    /\ skipped = <<>>
    /\ data = <<>>
    /\ resolved = {}
    /\ pc = "off"
    /\ output = <<>>
    /\ parsed = [called |-> FALSE]
    /\ \/ mode = "token" /\ input \in Tokens
       \/ mode = "raw" /\ input \in RawTexts

CreateRequirementCall ==
    /\ mode = "token"
    /\ ~parsed.called
    /\ parsed' = [called |-> TRUE, value |-> create_requirement(input)]
    /\ UNCHANGED <<pipeVars, mode, input>>

ParseRequirementsCall ==
    /\ mode = "raw"
    /\ ~parsed.called
    /\ parsed' = [called |-> TRUE, value |-> parse_requirements(input)]
    /\ UNCHANGED <<pipeVars, mode, input>>

NextParse == CreateRequirementCall \/ ParseRequirementsCall

SpecParse == InitParse /\ [][NextParse]_vars

-----------------------------------------------------------------------------
(* Vocabulary of the properties *)

Disc(all_data, p) == all_data[p[1]].content[p[2]]

\* The positions <<b, r>> of the atoms of a Discipline.
AtomsOf(discipline) ==
    UNION {{<<b, r>> : r \in 1..Len(discipline.reqs[b])} : b \in 1..Len(discipline.reqs)}

Atom(discipline, a) == discipline.reqs[a[1]][a[2]]

Count(seq, x) == Cardinality({i \in 1..Len(seq) : seq[i] = x})

CodesOf(disciplines_map) == [d \in 1..Len(disciplines_map) |-> disciplines_map[d].code]

CatalogCodes(all_data) == {Disc(all_data, p).code : p \in Positions(all_data)}

\* A shard without what the update pass writes: codes, names, and the groups
\* and atoms with their code and partial flag.
ShardSkeleton(disciplines_map) ==
    [d \in 1..Len(disciplines_map) |->
        [code |-> disciplines_map[d].code,
         name |-> disciplines_map[d].name,
         reqs |-> [b \in 1..Len(disciplines_map[d].reqs) |->
                      [r \in 1..Len(disciplines_map[d].reqs[b]) |->
                          [code |-> disciplines_map[d].reqs[b][r].code,
                           partial |-> disciplines_map[d].reqs[b][r].partial]]]]]

Skeleton(all_data) ==
    [s \in 1..Len(all_data) |->
        [initials |-> all_data[s].initials, content |-> ShardSkeleton(all_data[s].content)]]

\* Two tasks returned the same code with differing content.
Conflict ==
    \E i \in Tasks, j \in Tasks :
        /\ i # j
        /\ \E x \in 1..Len(disciplines_data[i]), y \in 1..Len(disciplines_data[j]) :
              /\ disciplines_data[i][x].code = disciplines_data[j][y].code
              /\ disciplines_data[i][x] # disciplines_data[j][y]

\* The update pass has written something.
Touched ==
    \E p \in Positions(data) :
        \/ Disc(data, p).reqBy # <<>>
        \/ \E a \in AtomsOf(Disc(data, p)) : Atom(Disc(data, p), a).special

\* The catalog as the tasks returned it, and that catalog after the update
\* pass in the order of the code.
Merged == DictZip(initial_list, disciplines_data, 1, <<>>)
UpdatedInOrder == UpdateFrom(Merged, 1, 1)

Letters == {"A", "B", "C", "F", "M", "X", "Y"}
Digits == {"0", "1", "2", "9"}

\* The canonical form of a discipline code: two letters and three digits, or
\* one letter, a space and three digits.
IsCanonical(t) ==
    /\ Len(t) = 5
    /\ t[1] \in Letters
    /\ t[2] \in Letters \cup {" "}
    /\ \A k \in 3..5 : t[k] \in Digits

-----------------------------------------------------------------------------
(* Properties *)

\* C1: after the update pass, for every discipline d and every non-special
\* atom a of d, the discipline keyed by a.code holds d.code in its reqBy
\* exactly once, however many atoms of d name a.code.
C1_RequiredByExactlyOnce ==
    pc = "done" =>
        \A p \in Positions(data) : \A a \in AtomsOf(Disc(data, p)) :
            LET atom == Atom(Disc(data, p), a)
                q == get_discipline(atom.code, data)
            IN  ~atom.special =>
                    /\ q # NoPos
                    /\ Count(Disc(data, q).reqBy, Disc(data, p).code) = 1

\* C2: a second update pass over the finished catalog leaves every reqBy as
\* the first pass left it.
C2_SecondPassSameRequiredBy ==
    pc = "done" =>
        \A p \in Positions(data) :
            Disc(UpdateFrom(data, 1, 1), p).reqBy = Disc(data, p).reqBy

\* C3: an atom marked special names a code that no discipline of the catalog
\* has, in any shard.
C3_SpecialAbsentFromCatalog ==
    \A p \in Positions(data) : \A a \in AtomsOf(Disc(data, p)) :
        Atom(Disc(data, p), a).special =>
            Atom(Disc(data, p), a).code \notin CatalogCodes(data)

C5_UpdateAfterEveryTask ==
    (pc \in {"resolve", "done"} \/ resolved # {} \/ Touched) =>
        /\ \A i \in Tasks : task[i] = "done"
        /\ \A i \in Tasks : \E s \in 1..Len(data) :
              /\ data[s].initials = initial_list[i]
              /\ CodesOf(data[s].content) = CodesOf(disciplines_data[i])
        /\ \A p \in Positions(data) : \A a \in AtomsOf(Disc(data, p)) :
              Atom(Disc(data, p), a).special =>
                  \A i \in Tasks :
                      initial_list[i] = Prefix2(Atom(Disc(data, p), a).code) =>
                          CodeIndex(disciplines_data[i], Atom(Disc(data, p), a).code) = 0

\* C5 witness: two tasks returned, the pass ran over both shards, marked an
\* atom special and wrote a reqBy.
C5_Witness ==
    /\ pc = "done"
    /\ Len(initial_list) = 2
    /\ \A s \in 1..Len(data) : data[s].content # <<>>
    /\ \E p \in Positions(data) : Disc(data, p).reqBy # <<>>
    /\ \E p \in Positions(data) : \E a \in AtomsOf(Disc(data, p)) :
          Atom(Disc(data, p), a).special

C7_ParseAllOrNothing ==
    (mode = "raw" /\ parsed.called) =>
        LET groups == Split(input, or_string)
            Toks(g) == Split(groups[g], and_string)
            bad == \E g \in 1..Len(groups) : \E t \in 1..Len(Toks(g)) :
                       create_requirement(Toks(g)[t]) = None
        IN  /\ bad => parsed.value = NoReqs
            /\ ~bad =>
                  /\ Len(parsed.value) = Len(groups)
                  /\ \A g \in 1..Len(groups) :
                        /\ Len(parsed.value[g]) = Len(Toks(g))
                        /\ \A t \in 1..Len(Toks(g)) :
                              parsed.value[g][t] = create_requirement(Toks(g)[t])
            /\ input = AB12 \o and_string \o XY999 => parsed.value = NoReqs
            /\ input = MC102 \o or_string \o <<"*">> \o MC202 =>
                  parsed.value = << <<[code |-> MC102, partial |-> FALSE, special |-> FALSE]>>,
                                    <<[code |-> MC202, partial |-> TRUE, special |-> FALSE]>> >>

\* C7 witness: a text whose first group is valid and whose second group holds
\* a token that is not classified was parsed to None.
C7_Witness ==
    /\ mode = "raw"
    /\ parsed.called
    /\ parsed.value = NoReqs
    /\ Len(Split(input, or_string)) = 2
    /\ parse_requirements(Split(input, or_string)[1]) # NoReqs

\* C8: create_requirement returns a non-partial atom exactly for a token in
\* canonical form, a partial atom of the remainder exactly for '*' followed
\* by a canonical code, and None for every other token.
C8_ClassifierExact ==
    (mode = "token" /\ parsed.called) =>
        IF IsCanonical(input)
        THEN parsed.value = [code |-> input, partial |-> FALSE, special |-> FALSE]
        ELSE IF input # <<>> /\ input[1] = "*" /\ IsCanonical(Rest(input))
        THEN parsed.value = [code |-> Rest(input), partial |-> TRUE, special |-> FALSE]
        ELSE parsed.value = None

\* C9: whatever the order of the iterations of the update pass, the finished
\* catalog has the special flags of the pass made in the order of the code,
\* and every reqBy holds each code as many times.
C9_OrderIndependent ==
    pc = "done" =>
        /\ Positions(data) = Positions(UpdatedInOrder)
        /\ \A p \in Positions(data) :
              /\ Disc(data, p).reqs = Disc(UpdatedInOrder, p).reqs
              /\ \A c \in CatalogCodes(data) :
                    Count(Disc(data, p).reqBy, c) = Count(Disc(UpdatedInOrder, p).reqBy, c)

\* C9 witness: a pass made in an order that is not the order of the code: some
\* reqBy lists its entries in another order.
C9_Witness ==
    /\ pc = "done"
    /\ \E p \in Positions(data) : Disc(data, p).reqBy # Disc(UpdatedInOrder, p).reqBy

\* C10: an iteration of the update pass keeps every code, name and the
\* groups and atoms with their code and partial flag; it only sets special
\* flags on atoms of the discipline it works on and appends that
\* discipline's code to reqBy lists; on a discipline without reqs it changes
\* nothing.
C10_UpdateFrame ==
    [][resolved' # resolved =>
          /\ Skeleton(data') = Skeleton(data)
          /\ \A p \in resolved' \ resolved :
                /\ Disc(data, p).reqs = NoReqs => data' = data
                /\ \A q \in Positions(data) :
                      /\ Len(Disc(data', q).reqBy) >= Len(Disc(data, q).reqBy)
                      /\ \A k \in 1..Len(Disc(data', q).reqBy) :
                            Disc(data', q).reqBy[k] =
                                IF k <= Len(Disc(data, q).reqBy)
                                THEN Disc(data, q).reqBy[k]
                                ELSE Disc(data, p).code
                      /\ q # p => Disc(data', q).reqs = Disc(data, q).reqs
                      /\ \A a \in AtomsOf(Disc(data, q)) :
                            Atom(Disc(data, q), a).special => Atom(Disc(data', q), a).special
      ]_vars

\* C10 witness: the pass is over; a discipline without reqs was given a
\* reqBy, and a partial atom was marked special.
C10_Witness ==
    /\ pc = "done"
    /\ \E p \in Positions(data) : Disc(data, p).reqs = NoReqs /\ Disc(data, p).reqBy # <<>>
    /\ \E p \in Positions(data) : \E a \in AtomsOf(Disc(data, p)) :
          Atom(Disc(data, p), a).special /\ Atom(Disc(data, p), a).partial

====
